---- MODULE Spec2Model ----
(***************************************************************************)
(* Model of MapLooper::Loop (include/MapLooper/Loop.hpp): one loop track   *)
(* on a libmapper device.  The track owns nine signals, one feedback map   *)
(* between local/send and local/recv, a tick scheduler (update) and a late *)
(* binder (mapRecord .. mapOutput) driven by graph events.                 *)
(*                                                                         *)
(* Numbers.  Beat positions are rationals <<n, d>> = n/d.  Sample values   *)
(* are integers (multiples of one quantisation step); record and           *)
(* modulation take their end points 0 and 1.                               *)
(***************************************************************************)
EXTENDS Integers, Sequences, FiniteSets, TLC

\* ---------------------------------------------------------------- bounds
MaxCalls == 3          \* update() calls per behaviour
MaxReq == 2            \* mapX() calls per behaviour
MaxEvents == 3         \* graph events delivered per behaviour

\* beat positions <<n, d>> = n/d: -0.05, 0.0, 0.05, 0.20, 1.0
Beats == {<<-1, 20>>, <<0, 1>>, <<1, 20>>, <<1, 5>>, <<1, 1>>}
Records == {0, 1}
Lengths == {1, 2}
Divisions == {1, 16}
Modulations == {0, 1}
Mutes == {0, 1}
Inputs == {0, 1}
Noises == {-1, 0}                      \* samples of uniform(2.0)-1
\* the inputs of the life-cycle specification: one more beat position,
\* 0.25, and a length whose delay passes the history capacity
WideBeats == Beats \cup {<<1, 4>>}
LongLengths == {1, 7}

\* ------------------------------------------------------ program constants
defaultDivision == 16
defaultLength == 1
sigMin == 0
muteMin == 0
HistCap == 100

\* signals of other devices that may come and go: [dev, name]; the track's
\* own device is device 0
PeerNames == {"P", "Q"}
PeerObjs == {[dev |-> 1, name |-> "P"], [dev |-> 2, name |-> "P"],
             [dev |-> 1, name |-> "Q"]}
\* mpr_graph_evt: MPR_OBJ_NEW, MPR_OBJ_MOD, MPR_OBJ_REM, MPR_OBJ_EXP
EvtKinds == {"NEW", "MOD", "REM", "EXP"}

Controls == {"record", "length", "division", "modulation", "mute"}
Endpoints == Controls \cup {"input", "output", "localSend", "localReceive"}

VARIABLES pc, sigs, assigned, val, loopMap, mapReady,
          lastUpdate, calls, beats, now, printed, hist,
          cbs, present, conns, nEvents, evt

vars == <<pc, sigs, assigned, val, loopMap, mapReady,
          lastUpdate, calls, beats, now, printed, hist,
          cbs, present, conns, nEvents, evt>>

\* lastUpdate is _lastUpdate; calls counts update() calls; beats and now are
\* the argument and the local of the most recent call; printed is what the
\* calls have written to stdout, one "Missed %d ticks!" count per line
schedVars == <<lastUpdate, calls, beats, now, printed, hist>>
\* cbs are the callbacks registered with mpr_graph_add_cb, present the peer
\* signals now in the graph, conns the maps the handlers have pushed, evt the
\* arguments of the most recent handler invocation
bindVars == <<cbs, present, conns, nEvents, evt>>
busVars == <<sigs, assigned, val, loopMap, mapReady>>

\* --------------------------------------------------------------- helpers
Min(a, b) == IF a < b THEN a ELSE b

\* C++ conversion of a floating value a/b (b > 0) to int: toward zero
TruncDiv(a, b) == IF a >= 0 THEN a \div b ELSE -((-a) \div b)

\* mathematical floor of a/b (b > 0)
FloorDiv(a, b) == a \div b

\* mpr_sig_set_value on a set of signals
SetValues(v, f) == [e \in Endpoints |-> IF e \in DOMAIN f THEN f[e] ELSE v[e]]

\* ------------------------------------------------------------------ Init
Init ==
  /\ pc = "start"
  /\ sigs = {}
  /\ assigned = {}
  /\ val = [e \in Endpoints |-> 0]
  /\ loopMap = FALSE
  /\ mapReady = FALSE
  /\ lastUpdate = 0
  /\ calls = 0
  /\ beats = <<0, 1>>
  /\ now = 0
  /\ printed = << >>
  /\ hist = << >>
  /\ cbs = << >>
  /\ present = {}
  /\ conns = << >>
  /\ nEvents = 0
  /\ evt = [obj |-> [dev |-> 0, name |-> ""], kind |-> "none"]

\* ----------------------------------------------------------- constructor
\* lines 45-89: the nine mpr_sig_new calls and the seven initial values
CreateSignals ==
  /\ pc = "start"
  /\ pc' = "signals"
  /\ sigs' = Endpoints
  /\ assigned' = Endpoints \ {"length", "division"}
  /\ val' = SetValues(val, [e \in Endpoints \ {"length", "division"} |->
                              IF e = "mute" THEN muteMin ELSE sigMin])
  /\ UNCHANGED <<loopMap, mapReady, schedVars, bindVars>>

\* lines 45-89 when mpr_sig_new returns a null handle for endpoint e: the
\* result is not tested, the constructor goes on; the mpr_sig_set_value that
\* follows (all but length and division have one) is handed the null handle
\* and either returns or ends the process
CreateSignalsFail(e) ==
  /\ pc = "start"
  /\ \E p \in {"signals"} \cup
              (IF e \in {"length", "division"} THEN {} ELSE {"crashed"}) :
       pc' = p
  /\ sigs' = Endpoints \ {e}
  /\ assigned' = Endpoints \ {"length", "division", e}
  /\ val' = SetValues(val, [f \in Endpoints \ {"length", "division", e} |->
                              IF f = "mute" THEN muteMin ELSE sigMin])
  /\ UNCHANGED <<loopMap, mapReady, schedVars, bindVars>>

\* the signals named by the arguments of mpr_map_new_from_str, lines 94-95
MapSigs == {"length", "division", "localReceive", "record", "localSend",
            "modulation"}

\* lines 91-96: mpr_map_new_from_str and mpr_obj_push
CreateMap ==
  /\ pc = "signals"
  /\ MapSigs \subseteq sigs
  /\ pc' = "poll"
  /\ loopMap' = TRUE
  /\ \E r \in BOOLEAN : mapReady' = r
  /\ UNCHANGED <<sigs, assigned, val, schedVars, bindVars>>

\* lines 91-100 when mpr_map_new_from_str returns a null handle: the result
\* is not tested, mpr_obj_push and mpr_map_get_is_ready are handed the null
\* handle and either return or end the process
CreateMapFail ==
  /\ pc = "signals"
  /\ \E p \in {"poll", "crashed"} : pc' = p
  /\ loopMap' = FALSE
  /\ mapReady' = FALSE
  /\ UNCHANGED <<sigs, assigned, val, schedVars, bindVars>>

\* a wait loop that gives up after one turn
PollOnce ==
  /\ pc = "poll"
  /\ ~mapReady
  /\ pc' = "live"
  /\ UNCHANGED <<sigs, assigned, val, loopMap, mapReady, schedVars, bindVars>>

\* lines 98-100: one turn of the wait loop; a null map never gets ready
Poll ==
  /\ pc = "poll"
  /\ ~mapReady
  /\ \E r \in (IF loopMap THEN BOOLEAN ELSE {FALSE}) : mapReady' = r
  /\ UNCHANGED <<pc, sigs, assigned, val, loopMap, schedVars, bindVars>>

\* a constructor without the wait loop
SetDefaultsEarly ==
  /\ pc = "poll"
  /\ pc' = "live"
  /\ assigned' = assigned \cup {"length", "division"}
  /\ val' = SetValues(val, [e \in {"length", "division"} |->
                              IF e = "length" THEN defaultLength
                                              ELSE defaultDivision])
  /\ UNCHANGED <<sigs, loopMap, mapReady, schedVars, bindVars>>

\* lines 102-104: the loop has ended, length and division get their defaults
SetDefaults ==
  /\ pc = "poll"
  /\ mapReady
  /\ pc' = "live"
  /\ assigned' = assigned \cup {"length", "division"}
  /\ val' = SetValues(val, [e \in {"length", "division"} |->
                              IF e = "length" THEN defaultLength
                                              ELSE defaultDivision])
  /\ UNCHANGED <<sigs, loopMap, mapReady, schedVars, bindVars>>

\* ------------------------------------------------------------ destructor
\* lines 107-116: the eight mpr_sig_free calls (registered graph callbacks
\* are left in place)
Freed == {"record", "length", "modulation", "division", "input", "output",
          "localReceive", "localSend"}

Destroy ==
  /\ pc = "live"
  /\ pc' = "dead"
  /\ sigs' = sigs \ Freed
  /\ loopMap' = FALSE
  /\ UNCHANGED <<assigned, val, mapReady, schedVars, bindVars>>

\* -------------------------------------------------------- feedback map
\* a delay of one beat whatever the length
DelayDivision(v) == v["division"]

\* "del=_%x*_%x" bound to _sigLength, _sigDivision
Delay(v) == v["length"] * v["division"]

\* y{-d,100}: the value of y d evaluations ago, at most HistCap back; the
\* history holds zeros before the first evaluation
Lookback(h, d) ==
  LET k == Min(d, HistCap)
  IN IF k >= 1 /\ k <= Len(h) THEN h[Len(h) - k + 1] ELSE 0

\* a noise term without its offset: uniform(2.0) in place of uniform(2.0)-1
FeedbackUnbiased(v, h, n) ==
    v["record"] * v["localSend"]
  + (1 - v["record"]) * Lookback(h, Delay(v))
  + v["modulation"] * (n + 1)

\* "%y=_%x*%x+(1-_%x)*y{-del,100}+_%x*(uniform(2.0)-1)" bound to
\* _sigLocalReceive, _sigRecord, _sigLocalSend, _sigRecord, _sigModulation;
\* n is the sample drawn by uniform(2.0)-1
FeedbackValue(v, h, n) ==
    v["record"] * v["localSend"]
  + (1 - v["record"]) * Lookback(h, Delay(v))
  + v["modulation"] * n

\* the map keeps the last HistCap values of y
Push(h, y) ==
  LET a == Append(h, y)
  IN IF Len(a) > HistCap THEN Tail(a) ELSE a

\* ---------------------------------------------------------------- update
\* line 131: int now = beats * division
Tick(b, division) == TruncDiv(b[1] * division, b[2])

\* a test that only lets the tick move forward
TickAdvanced(nw, last) == nw > last

\* line 132: if (now != _lastUpdate)
TickChanged(nw, last) == nw # last

\* a capture that is skipped while the track is muted
CaptureUnlessMuted(v) ==
  IF v["mute"] = 1 THEN v
  ELSE SetValues(v, [e \in {"localSend"} |-> v["input"]])

\* a capture that feeds local/recv back instead of the input
CaptureRecv(v) == SetValues(v, [e \in {"localSend"} |-> v["localReceive"]])

\* lines 139-140: the input value is copied to local/send
Capture(v) == SetValues(v, [e \in {"localSend"} |-> v["input"]])

\* a report that prints the tick distance instead of the ticks skipped
ReportDistance(out, nw, last) ==
  IF nw - last > 1 THEN Append(out, nw - last) ELSE out

\* lines 134-136: the printf, taken when more than one tick has passed
Report(out, nw, last) ==
  IF nw - last > 1 THEN Append(out, nw - last - 1) ELSE out

\* a gate that copies local/send, not local/recv
GateSend(v) == IF v["mute"] = 0
               THEN SetValues(v, [e \in {"output"} |-> v["localSend"]])
               ELSE v

\* a gate that copies whatever mute holds
GateOpen(v) == SetValues(v, [e \in {"output"} |-> v["localReceive"]])

\* lines 146-150: the mute gate
Gate(v) == IF v["mute"] = 0
           THEN SetValues(v, [e \in {"output"} |-> v["localReceive"]])
           ELSE v

\* the handles an update at beat b goes through: division and mute always,
\* input and local/send on a tick change, local/recv and output when not
\* muted
Used(b) ==
  {"division", "mute"}
    \cup (IF "division" \in sigs
              /\ TickChanged(Tick(b, val["division"]), lastUpdate)
          THEN {"input", "localSend"} ELSE {})
    \cup (IF "mute" \in sigs /\ val["mute"] = 0
          THEN {"localReceive", "output"} ELSE {})

\* lines 128-151; setting local/send makes the bus evaluate the feedback
\* map, whose result is the new value of local/recv
Update(b) ==
  /\ pc = "live"
  /\ calls < MaxCalls
  /\ Used(b) \subseteq sigs
  /\ calls' = calls + 1
  /\ beats' = b
  /\ now' = Tick(b, val["division"])
  /\ IF TickChanged(now', lastUpdate)
     THEN \E n \in Noises :
            LET v1 == Capture(val)
                y == FeedbackValue(v1, hist, n)
                v2 == SetValues(v1, [e \in {"localReceive"} |-> y])
            IN /\ printed' = Report(printed, now', lastUpdate)
               /\ val' = Gate(v2)
               /\ hist' = Push(hist, y)
               /\ lastUpdate' = now'
     ELSE /\ val' = Gate(val)
          /\ UNCHANGED <<printed, hist, lastUpdate>>
  /\ UNCHANGED <<pc, sigs, assigned, loopMap, mapReady, bindVars>>

\* lines 128-151 on a track one of whose handles is null: the value pointer
\* got through it is dereferenced (lines 129, 146) or copied from (lines
\* 140, 149), which ends the process
UpdateNull(b) ==
  /\ pc = "live"
  /\ calls < MaxCalls
  /\ ~(Used(b) \subseteq sigs)
  /\ pc' = "crashed"
  /\ UNCHANGED <<busVars, schedVars, bindVars>>

\* ----------------------------------------------------------- environment
\* the host or a mapped peer sets a control signal (getRecordSignal() ..
\* getMuteSignal(), lines 157-165)
ControlValues(e) ==
  CASE e = "record" -> Records
    [] e = "length" -> Lengths
    [] e = "division" -> Divisions
    [] e = "modulation" -> Modulations
    [] e = "mute" -> Mutes

SetControl(e, x) ==
  /\ pc = "live"
  /\ calls < MaxCalls
  /\ e \in sigs
  /\ val[e] # x
  /\ val' = SetValues(val, [f \in {e} |-> x])
  /\ UNCHANGED <<pc, sigs, assigned, loopMap, mapReady, schedVars, bindVars>>

\* a peer or the host writes the input signal (getInputSignal(), line 153)
SetInput(x) ==
  /\ pc = "live"
  /\ calls < MaxCalls
  /\ "input" \in sigs
  /\ val["input"] # x
  /\ val' = SetValues(val, [f \in {"input"} |-> x])
  /\ UNCHANGED <<pc, sigs, assigned, loopMap, mapReady, schedVars, bindVars>>

\* ------------------------------------------------------------ late binder
Local(e) == [dev |-> 0, name |-> e]

\* lines 168-184: _mapFrom(src, dst) registers a graph callback with
\* MapData{src, dst}
MapFrom(name, e) ==
  /\ pc = "live"
  /\ Len(cbs) < MaxReq
  /\ cbs' = Append(cbs, [dir |-> "from", name |-> name, sig |-> e])
  /\ UNCHANGED <<pc, busVars, schedVars, present, conns, nEvents, evt>>

\* lines 186-202: _mapTo(src, dst) registers a graph callback with
\* MapData{src, dst}
MapTo(e, name) ==
  /\ pc = "live"
  /\ Len(cbs) < MaxReq
  /\ cbs' = Append(cbs, [dir |-> "to", name |-> name, sig |-> e])
  /\ UNCHANGED <<pc, busVars, schedVars, present, conns, nEvents, evt>>

\* lines 118-126
mapRecord(src) == MapFrom(src, "record")
mapLength(src) == MapFrom(src, "length")
mapModulation(src) == MapFrom(src, "modulation")
mapInput(src) == MapFrom(src, "input")
mapOutput(dst) == MapTo("output", dst)

\* a handler whose inbound maps have their mpr_map_new arguments swapped
HandlerReversed(i, o, k) ==
  IF cbs[i].name = o.name
  THEN << [req |-> i, src |-> Local(cbs[i].sig), dst |-> o, evt |-> k] >>
  ELSE << >>

\* a handler that takes strcmp's result as "equal" when it is non-zero
HandlerInverted(i, o, k) ==
  IF cbs[i].name # o.name
  THEN IF cbs[i].dir = "from"
       THEN << [req |-> i, src |-> o, dst |-> Local(cbs[i].sig), evt |-> k] >>
       ELSE << [req |-> i, src |-> Local(cbs[i].sig), dst |-> o, evt |-> k] >>
  ELSE << >>

\* lines 175-182 and 193-200: what the handler of request i does on an
\* event about signal o: strcmp on the name, then mpr_map_new and push.
\* The event kind is not looked at.
Handler(i, o, k) ==
  IF cbs[i].name = o.name
  THEN IF cbs[i].dir = "from"
       THEN << [req |-> i, src |-> o, dst |-> Local(cbs[i].sig), evt |-> k] >>
       ELSE << [req |-> i, src |-> Local(cbs[i].sig), dst |-> o, evt |-> k] >>
  ELSE << >>

\* the same handler once the track is destroyed: MapData's mpr_sig* points
\* into the destroyed Loop (lines 118-126 pass &_sigRecord .. &_sigOut), so
\* the read in mpr_map_new is undefined: it yields some word (the stale
\* handle of a freed signal among them), written Garbage, or nothing usable
Garbage == [dev |-> 0, name |-> "dangling"]

HandlerDangling(i, o, k) ==
  IF cbs[i].name = o.name
  THEN IF cbs[i].dir = "from"
       THEN { << [req |-> i, src |-> o, dst |-> Garbage, evt |-> k] >>,
              << >> }
       ELSE { << [req |-> i, src |-> Garbage, dst |-> o, evt |-> k] >>,
              << >> }
  ELSE { << >> }

\* the graph calls every registered callback, in registration order; the
\* result is the set of map sequences the calls can push
RECURSIVE RunHandlers(_, _, _)
RunHandlers(i, o, k) ==
  IF i > Len(cbs) THEN { << >> }
  ELSE LET first == IF pc = "live" THEN { Handler(i, o, k) }
                                   ELSE HandlerDangling(i, o, k)
       IN { h \o r : h \in first, r \in RunHandlers(i + 1, o, k) }

\* mpr_dev_poll delivers one signal event of the graph (MPR_SIG callbacks,
\* lines 183 and 201)
GraphEvent(o, k) ==
  /\ pc \in {"live", "dead"}
  /\ nEvents < MaxEvents
  /\ nEvents' = nEvents + 1
  /\ evt' = [obj |-> o, kind |-> k]
  /\ IF k = "NEW" THEN o \notin present /\ present' = present \cup {o}
     ELSE IF k = "MOD" THEN o \in present /\ present' = present
     ELSE o \in present /\ present' = present \ {o}
  /\ \E r \in RunHandlers(1, o, k) : conns' = conns \o r
  /\ UNCHANGED <<pc, busVars, schedVars, cbs>>

NextBind ==
  \/ CreateSignals
  \/ CreateMap
  \/ Poll
  \/ SetDefaults
  \/ Destroy
  \/ \E n \in PeerNames : mapRecord(n)
  \/ \E n \in PeerNames : mapLength(n)
  \/ \E n \in PeerNames : mapModulation(n)
  \/ \E n \in PeerNames : mapInput(n)
  \/ \E n \in PeerNames : mapOutput(n)
  \/ \E o \in PeerObjs : \E k \in EvtKinds : GraphEvent(o, k)

SpecBind == Init /\ [][NextBind]_vars


NextSched ==
  \/ CreateSignals
  \/ CreateMap
  \/ Poll
  \/ SetDefaults
  \/ \E b \in Beats : Update(b)
  \/ \E e \in Controls : \E x \in ControlValues(e) : SetControl(e, x)
  \/ \E x \in Inputs : SetInput(x)

SpecSched == Init /\ [][NextSched]_vars

\* construction with the bus failures it can meet, then updates
NextLife ==
  \/ CreateSignals
  \/ \E e \in Endpoints : CreateSignalsFail(e)
  \/ CreateMap
  \/ CreateMapFail
  \/ Poll
  \/ SetDefaults
  \/ \E b \in WideBeats : Update(b)
  \/ \E b \in WideBeats : UpdateNull(b)
  \/ \E x \in LongLengths : SetControl("length", x)
  \/ \E x \in Divisions : SetControl("division", x)
  \/ \E x \in Inputs : SetInput(x)
  \/ \E n \in PeerNames : mapInput(n)

SpecLife == Init /\ [][NextLife]_vars

\* the constructor is straight-line code: once the wait loop's test fails
\* it goes on to lines 102-104
SpecLifeFair == SpecLife /\ WF_vars(SetDefaults)

Next == NextSched \/ NextBind \/ NextLife

Spec == Init /\ [][Next]_vars

\* ================================================================ claims
UpdateStep == calls' = calls + 1

\* C1: from a state in which mute holds true, no step (an update at any
\* beat position, or a change of input, record, division or any other
\* control) changes the value of the output endpoint.
MutedOutputFrozen ==
  [][val["mute"] = 1 => val'["output"] = val["output"]]_vars

\* an update has run while muted and moved local/recv away from the output
MutedOutputFrozenWitness ==
  /\ pc = "live"
  /\ val["mute"] = 1
  /\ calls > 0
  /\ val["localReceive"] # val["output"]

\* C2: an update whose tick is k > 1 above lastTickIndex prints exactly one
\* "missed ticks" line, with count k-1, and any other update prints
\* nothing; with division 16 the calls at beats 0.0, 0.05, 0.20 on a fresh
\* track derive ticks 0, 0, 3 and only the third prints, with count 2.
MissedTicksReported ==
  [][UpdateStep =>
       /\ IF now' - lastUpdate > 1
          THEN printed' = Append(printed, now' - lastUpdate - 1)
          ELSE printed' = printed
       /\ (val["division"] = 16 /\ calls = 0 /\ beats' = <<0, 1>>)
            => (now' = 0 /\ printed' = << >>)
       /\ (val["division"] = 16 /\ calls = 1 /\ beats = <<0, 1>> /\ now = 0
             /\ lastUpdate = 0 /\ printed = << >> /\ beats' = <<1, 20>>)
            => (now' = 0 /\ printed' = << >>)
       /\ (val["division"] = 16 /\ calls = 2 /\ beats = <<1, 20>> /\ now = 0
             /\ lastUpdate = 0 /\ printed = << >> /\ beats' = <<1, 5>>)
            => (now' = 3 /\ printed' = <<2>>)]_vars

\* the third call of the scenario has run
MissedTicksReportedWitness ==
  /\ calls = 3
  /\ val["division"] = 16
  /\ beats = <<1, 5>>
  /\ now = 3
  /\ lastUpdate = 3
  /\ printed = <<2>>

\* the number of maps request i has installed
Installed(c, i) == Cardinality({j \in 1..Len(c) : c[j].req = i})

\* C3: on an event delivered to a live track, a request for name P installs
\* nothing when the event's signal is not named exactly P and exactly one
\* map when it is; until such an event the request has installed nothing.
NameMatchInstalls ==
  [][(nEvents' = nEvents + 1 /\ pc = "live") =>
       \A i \in 1..Len(cbs) :
         Installed(conns', i) =
           Installed(conns, i)
             + (IF evt'.obj.name = cbs[i].name THEN 1 ELSE 0)]_vars

\* a request for P has seen an event for Q, which installed nothing, and
\* then its first event for P, which installed one map
NameMatchInstallsWitness ==
  /\ pc = "live"
  /\ nEvents = 2
  /\ evt.obj.name = "P"
  /\ \E o \in present : o.name = "Q"
  /\ \E i \in 1..Len(cbs) : cbs[i].name = "P" /\ Installed(conns, i) = 1
  /\ Len(conns) = 1

\* C4: a request installs at most one map in total, whatever events arrive.
SingleFire ==
  \A i \in 1..Len(cbs) : Installed(conns, i) <= 1

\* C5: once the track is destroyed none of its nine signals is left on the
\* bus.
AllEndpointsReleased ==
  pc = "dead" => sigs = {}

\* C6: the tick an update derives is floor(beats * division), for negative
\* beat positions too.
TickIsFloor ==
  [][UpdateStep =>
       now' = FloorDiv(beats'[1] * val["division"], beats'[2])]_vars

\* C7: an update whose tick is at or below lastTickIndex changes neither
\* local/send nor lastTickIndex, evaluates no recirculation and prints
\* nothing.
RewindIsNoOp ==
  [][(UpdateStep /\ now' <= lastUpdate) =>
       /\ val'["localSend"] = val["localSend"]
       /\ lastUpdate' = lastUpdate
       /\ hist' = hist
       /\ printed' = printed]_vars

\* C7 as amended: an update whose tick equals lastTickIndex is a no-op for
\* the tick logic; one whose tick is below lastTickIndex prints nothing but
\* captures the input to local/send and sets lastTickIndex to that tick.
RewindCaptures ==
  [][UpdateStep =>
       /\ now' = lastUpdate =>
            /\ val'["localSend"] = val["localSend"]
            /\ lastUpdate' = lastUpdate
            /\ hist' = hist
            /\ printed' = printed
       /\ now' < lastUpdate =>
            /\ val'["localSend"] = val["input"]
            /\ lastUpdate' = now'
            /\ Len(hist') = Len(hist) + 1
            /\ printed' = printed]_vars

\* the tick has left 0 and come back to it: the second capture was made by
\* an update whose tick was below lastTickIndex
RewindCapturesWitness ==
  /\ pc = "live"
  /\ lastUpdate = 0
  /\ now = 0
  /\ Len(hist) = 2
  /\ hist[1] = 0
  /\ hist[2] = 1
  /\ val["localSend"] = 1
  /\ printed = << >>

\* the value of y d evaluations before the one being made, 0 before the
\* first one
Back(h, d) == IF d <= Len(h) THEN h[Len(h) + 1 - d] ELSE 0

\* C8: with record = 0 and division D, the value recirculated at a tick is
\* the value of D ticks earlier (at most 100 back).
LoopRepeatsEveryDivision ==
  [][(UpdateStep /\ now' # lastUpdate /\ val["record"] = 0) =>
       val'["localReceive"] = Back(hist, Min(val["division"], HistCap))]_vars

\* C8 as amended: with record = 0, modulation = 0, length L and division D,
\* the value recirculated at a tick is the value of L*D ticks earlier (at
\* most 100 back, 0 before the first tick).
LoopRepeatsEveryLength ==
  [][(UpdateStep /\ now' # lastUpdate /\ val["record"] = 0
        /\ val["modulation"] = 0) =>
       val'["localReceive"] =
         Back(hist, Min(val["length"] * val["division"], HistCap))]_vars

\* two ticks were recorded (1, then 0) and a third, with length 2 and
\* division 1, played the first one back: the input it captured was 0
LoopRepeatsEveryLengthWitness ==
  /\ hist = <<1, 0, 1>>
  /\ val["localSend"] = 0
  /\ val["localReceive"] = 1
  /\ val["length"] = 2
  /\ val["division"] = 1

\* C9: with record = 1, an update in which the tick changes leaves in
\* local/send exactly the value the input holds.
RecordCapturesInput ==
  [][(UpdateStep /\ now' # lastUpdate /\ val["record"] = 1) =>
       val'["localSend"] = val["input"]]_vars

\* a tick with record = 1 has captured input 1 while local/recv held 0
RecordCapturesInputWitness ==
  /\ val["record"] = 1
  /\ val["modulation"] = 0
  /\ hist = <<1>>
  /\ val["localSend"] = 1
  /\ val["input"] = 1

\* C10: length and division have no value until the feedback map is ready;
\* the step that completes construction sets them to 1 and 16, and record,
\* modulation and mute then hold 0.
DefaultsAfterReady ==
  /\ []((assigned \cap {"length", "division"} # {}) => mapReady)
  /\ [][(pc # "live" /\ pc' = "live") =>
          /\ mapReady
          /\ assigned \cap {"length", "division"} = {}
          /\ {"length", "division", "record", "modulation", "mute"}
               \subseteq assigned'
          /\ val'["length"] = 1
          /\ val'["division"] = 16
          /\ val'["record"] = 0
          /\ val'["modulation"] = 0
          /\ val'["mute"] = 0]_vars

\* construction has completed
DefaultsAfterReadyWitness ==
  /\ pc = "live"
  /\ mapReady
  /\ {"length", "division"} \subseteq assigned
  /\ calls = 0
  /\ cbs = << >>

\* the bus has returned a null handle for a signal or for the feedback map
CreateFailed ==
  \/ pc \in {"signals", "poll", "live", "crashed"} /\ sigs # Endpoints
  \/ pc \in {"poll", "live", "crashed"} /\ ~loopMap

\* C11: after a failed creation the constructor does not go on (to the map,
\* the wait loop or the defaults, where the failed handle is used) and
\* neither update nor mapX runs on the track.
ConstructionFailureAborts ==
  CreateFailed =>
    /\ pc \notin {"poll", "live", "crashed"}
    /\ calls = 0
    /\ cbs = << >>

\* C12: every map installed by an event on a live track joins the event's
\* signal and the local endpoint of the request in the request's direction:
\* peer -> record, length, modulation or input for mapRecord, mapLength,
\* mapModulation, mapInput, and output -> peer for mapOutput.
ConnectionsDirected ==
  [][(nEvents' = nEvents + 1 /\ pc = "live") =>
       \A j \in (Len(conns) + 1)..Len(conns') :
         LET c == conns'[j]
             r == cbs[c.req]
         IN IF r.dir = "to"
            THEN /\ r.sig = "output"
                 /\ c.src = Local("output")
                 /\ c.dst = evt'.obj
            ELSE /\ r.sig \in {"record", "length", "modulation", "input"}
                 /\ c.src = evt'.obj
                 /\ c.dst = Local(r.sig)]_vars

\* one event for P has served a mapLength("P") and a mapOutput("P")
ConnectionsDirectedWitness ==
  /\ pc = "live"
  /\ nEvents = 1
  /\ Len(conns) = 2
  /\ \E j \in 1..2 : /\ conns[j].src.name = "P"
                     /\ conns[j].dst = Local("length")
  /\ \E j \in 1..2 : /\ conns[j].src = Local("output")
                     /\ conns[j].dst.name = "P"

\* C13: after an update made while mute is false the output holds the
\* value of local/recv, whether the tick changed in that update or not.
UnmutedOutputFollows ==
  [][(UpdateStep /\ val["mute"] = 0) =>
       val'["output"] = val'["localReceive"]]_vars

\* a tick recorded 1 and played nothing back on an unmuted track
UnmutedOutputFollowsWitness ==
  /\ val["mute"] = 0
  /\ calls = 2
  /\ Len(hist) = 2
  /\ val["localSend"] = 1
  /\ val["localReceive"] = 0
  /\ val["output"] = 0

\* C14: a destroyed track has no callback left registered, and no event
\* delivered after the destruction installs a map.
DestroyedTrackInert ==
  /\ [](pc = "dead" => cbs = << >>)
  /\ [][pc = "dead" => conns' = conns]_vars

\* C15: maps are installed only by events of kind NEW.
OnlyAppearanceInstalls ==
  \A j \in 1..Len(conns) : conns[j].evt = "NEW"

\* C16: with record = 0 the value recirculated at a tick is the historical
\* value exactly, for every modulation amount and noise sample.
PureRecirculation ==
  [][(UpdateStep /\ now' # lastUpdate /\ val["record"] = 0) =>
       val'["localReceive"] =
         Back(hist, Min(val["length"] * val["division"], HistCap))]_vars

\* C16 as amended: the noise term is scaled by modulation alone; the value
\* recirculated at a tick is record * input + (1 - record) * historical
\* value + modulation * noise sample, so with record = 0 it is the
\* historical value exactly only when modulation (or the sample) is 0.
NoiseScaledByModulation ==
  [][(UpdateStep /\ now' # lastUpdate) =>
       \E n \in Noises :
         val'["localReceive"] =
             val["record"] * val["input"]
           + (1 - val["record"])
               * Back(hist, Min(val["length"] * val["division"], HistCap))
           + val["modulation"] * n]_vars

\* the first tick, with record = 0 and modulation = 1, captured input 1 and
\* recirculated the historical 0 plus the noise sample -1
NoiseScaledByModulationWitness ==
  /\ hist = <<-1>>
  /\ val["localSend"] = 1
  /\ val["localReceive"] = -1
  /\ val["record"] = 0
  /\ val["modulation"] = 1

\* C17: for parameter values inside the declared ranges the delay term of
\* the feedback map is at most the history capacity.
DelayWithinHistory ==
  pc = "live" => val["length"] * val["division"] <= HistCap

\* C18: what an update does to lastTickIndex, local/send and the printed
\* diagnostics is a function of the beat position, division, input and
\* their own previous values; mute is not an argument of it, and a change
\* of mute changes none of them.
MuteGatesOnlyOutput ==
  [][/\ UpdateStep =>
          LET t == TruncDiv(beats'[1] * val["division"], beats'[2])
          IN /\ lastUpdate' = t
             /\ val'["localSend"] =
                  (IF t # lastUpdate THEN val["input"] ELSE val["localSend"])
             /\ printed' =
                  (IF t - lastUpdate > 1
                   THEN Append(printed, t - lastUpdate - 1) ELSE printed)
     /\ val'["mute"] # val["mute"] =>
          /\ lastUpdate' = lastUpdate
          /\ val'["localSend"] = val["localSend"]
          /\ printed' = printed]_vars

\* a muted track has skipped two ticks, captured input 1 and kept its
\* output
MuteGatesOnlyOutputWitness ==
  /\ val["mute"] = 1
  /\ lastUpdate = 3
  /\ printed = <<2>>
  /\ val["localSend"] = 1
  /\ hist = <<1>>
  /\ val["output"] = 0

\* C19: once the map is ready the constructor leaves the wait loop and
\* completes; while it is not ready the constructor stays in the loop, so
\* no track is live, and no update has run, without a ready map.
ConstructionWaitsForReady ==
  /\ (pc = "poll" /\ mapReady) ~> (pc = "live")
  /\ [][(pc = "poll" /\ ~mapReady) => pc' \in {"poll"}]_vars
  /\ []((pc = "live" \/ calls > 0) => mapReady)

\* construction has completed after the map got ready
ConstructionWaitsForReadyWitness ==
  /\ pc = "live"
  /\ mapReady
  /\ loopMap
  /\ sigs = Endpoints
  /\ nEvents = 0

\* C20: an update writes local/send (which makes the map run once) and
\* lastTickIndex exactly when its tick differs from lastTickIndex; then
\* local/send is the input and lastTickIndex the tick.  So lastTickIndex is
\* the tick of the latest update, and an update one tick later prints
\* nothing.
TickStateFollowsTick ==
  /\ [][UpdateStep =>
          /\ IF now' # lastUpdate
             THEN /\ val'["localSend"] = val["input"]
                  /\ Len(hist') = Len(hist) + 1
             ELSE /\ val'["localSend"] = val["localSend"]
                  /\ hist' = hist
          /\ lastUpdate' = now'
          /\ (calls > 0 /\ now' = now + 1) => printed' = printed]_vars
  /\ [](calls > 0 => lastUpdate = now)

\* an update skipped ticks 1 and 2; the next one, one tick later, printed
\* nothing more
TickStateFollowsTickWitness ==
  /\ calls = 2
  /\ printed = <<2>>
  /\ beats = <<1, 4>>
  /\ now = 4
  /\ lastUpdate = 4
  /\ Len(hist) = 2

====
